---- MODULE Spec2Model ----
(***************************************************************************)
(* Model of istat-for-NTFS: ParseMFT (istat_ntfs.py) and its helpers       *)
(* (hw5utils.py).  A Python bytes object is a sequence of 0..255; Python   *)
(* offsets are 0-based, so byte k of b is b[k+1].                          *)
(***************************************************************************)
EXTENDS Integers, Sequences, FiniteSets, TLC

\* ------------------------------------------------------------------------
\* Python primitives
\* ------------------------------------------------------------------------

None == "None"

Min(a, b) == IF a <= b THEN a ELSE b

\* b[lo:hi] for non-negative lo, hi: clipped to the object, never an error.
Slice(b, lo, hi) ==
  LET l == Min(lo, Len(b))
      h == Min(hi, Len(b))
  IN  IF l >= h THEN <<>> ELSE SubSeq(b, l + 1, h)

\* b[i] raises IndexError unless 0 <= i < len(b).
InRange(b, i) == i >= 0 /\ i < Len(b)

At(b, i) == b[i + 1]

\* range(lo, hi) as a list: empty when hi <= lo.
Range(lo, hi) == IF hi <= lo THEN <<>> ELSE [k \in 1..(hi - lo) |-> lo + k - 1]

RECURSIVE Pow256(_)
Pow256(n) == IF n = 0 THEN 1 ELSE 256 * Pow256(n - 1)

RECURSIVE Unsigned(_)
Unsigned(data) ==
  IF data = <<>> THEN 0
  ELSE LET rest == Unsigned(Tail(data))
       IN  IF rest = 0 THEN Head(data) ELSE Head(data) + 256 * rest

\* int.from_bytes(data, "little", signed=signed); b"" gives 0.
unpack(data, signed) ==
  IF signed /\ Len(data) > 0 /\ data[Len(data)] >= 128
  THEN Unsigned(data) - Pow256(Len(data))
  ELSE Unsigned(data)

\* ------------------------------------------------------------------------
\* hw5utils.py
\* ------------------------------------------------------------------------

FILE == <<70, 73, 76, 69>>

\* the assertion stripped, as under python -O
SignatureOkNoCheck(entry) == TRUE

\* the assertion of apply_fixup
SignatureOk(entry) == Slice(entry, 0, 4) = FILE

AssertionError == "AssertionError"
IndexError == "IndexError"
UnicodeDecodeError == "UnicodeDecodeError"

\* apply_fixup, below its assertion
apply_fixup(entry) ==
  LET fixup == unpack(Slice(entry, 4, 6), FALSE)
      num_fixup_entries == unpack(Slice(entry, 6, 8), FALSE)
      fixuprepl == Slice(entry, fixup + 2, fixup + 2 * num_fixup_entries)
  IN  Slice(entry, 0, 510) \o Slice(fixuprepl, 0, 2)
        \o Slice(entry, 512, 1022) \o Slice(fixuprepl, 2, 4)

ValueError == "ValueError"

\* int.from_bytes(data, "little", signed=False) of a timestamp field, kept as
\* its base-256 digits, least significant first, without leading zero digits
\* (<<>> is 0): the tick counts of the format do not fit a machine integer.
RECURSIVE Digits(_)
Digits(data) ==
  IF data = <<>> THEN <<>>
  ELSE IF data[Len(data)] = 0 THEN Digits(SubSeq(data, 1, Len(data) - 1))
  ELSE data

\* a >= b on digit sequences
RECURSIVE AtLeast(_, _)
AtLeast(a, b) ==
  IF Len(a) # Len(b) THEN Len(a) > Len(b)
  ELSE IF a = <<>> THEN TRUE
  ELSE IF a[Len(a)] # b[Len(b)] THEN a[Len(a)] > b[Len(b)]
  ELSE AtLeast(SubSeq(a, 1, Len(a) - 1), SubSeq(b, 1, Len(b) - 1))

\* windows_timestamp % 10000000
RECURSIVE Mod10M(_)
Mod10M(d) ==
  IF d = <<>> THEN 0
  ELSE LET r == Mod10M(Tail(d))
       IN  ((((r * 16) % 10000000) * 16) + Head(d)) % 10000000

\* the digits of a natural number
RECURSIVE ToDigits(_)
ToDigits(n) == IF n = 0 THEN <<>> ELSE <<n % 256>> \o ToDigits(n \div 256)

\* a + b + carry on digit sequences
RECURSIVE AddDigits(_, _, _)
AddDigits(a, b, carry) ==
  IF a = <<>> /\ b = <<>> THEN ToDigits(carry)
  ELSE LET x == (IF a = <<>> THEN 0 ELSE Head(a)) + (IF b = <<>> THEN 0 ELSE Head(b)) + carry
       IN  <<x % 256>> \o AddDigits(IF a = <<>> THEN <<>> ELSE Tail(a),
                                    IF b = <<>> THEN <<>> ELSE Tail(b), x \div 256)

\* a - b - borrow on digit sequences, for a >= b + borrow
RECURSIVE SubDigits(_, _, _)
SubDigits(a, b, borrow) ==
  IF a = <<>> THEN <<>>
  ELSE LET x == Head(a) - (IF b = <<>> THEN 0 ELSE Head(b)) - borrow
       IN  Digits(<<(x + 256) % 256>>
                    \o SubDigits(Tail(a), IF b = <<>> THEN <<>> ELSE Tail(b),
                                 IF x < 0 THEN 1 ELSE 0))

\* d * k + carry for a digit sequence d and a small factor k
RECURSIVE MulDigits(_, _, _)
MulDigits(d, k, carry) ==
  IF d = <<>> THEN ToDigits(carry)
  ELSE LET x == Head(d) * k + carry
       IN  Digits(<<x % 256>> \o MulDigits(Tail(d), k, x \div 256))

\* seconds * 10**7
TicksOfSeconds(seconds) == MulDigits(MulDigits(ToDigits(seconds), 10000, 0), 1000, 0)

\* 2650467743999999848: the least tick count whose epoch_ts, a float, is
\* rounded by datetime.fromtimestamp to 10000-01-01 00:00:00 UTC
FirstTickOfYear10000UTC == <<104, 63, 192, 209, 94, 90, 200, 36>>

\* The least tick count datetime.fromtimestamp rejects on a host whose local
\* time at the end of year 9999 is utcoffset seconds east of UTC: local year
\* 10000 begins utcoffset seconds before it does in UTC.
FirstTickOfYear10000(utcoffset) ==
  IF utcoffset >= 0
  THEN SubDigits(FirstTickOfYear10000UTC, TicksOfSeconds(utcoffset), 0)
  ELSE AddDigits(FirstTickOfYear10000UTC, TicksOfSeconds(0 - utcoffset), 0)

\* _localtime_string on a host utcoffset seconds east of UTC: ValueError from
\* datetime.fromtimestamp, which converts to the host's local time, past local
\* year 9999, else the tick count split as the code splits it.  The calendar
\* text is a function of ticks and of the host's time zone; the model keeps
\* the tick count in its place.
localtime_string(windows_timestamp, utcoffset) ==
  IF AtLeast(windows_timestamp, FirstTickOfYear10000(utcoffset))
  THEN [error |-> ValueError, value |-> None]
  ELSE [error |-> None,
        value |-> [ticks    |-> windows_timestamp,
                   fraction |-> Mod10M(windows_timestamp),
                   fallback |-> windows_timestamp = <<>>]]

header_length == 24

parse_time(attribute, lo, hi, utcoffset) ==
  localtime_string(Digits(Slice(attribute, header_length + lo, header_length + hi)), utcoffset)

Zeros4 == <<0, 0, 0, 0>>

\* bytes.decode("utf-16-le") of b: the code points, or UnicodeDecodeError on
\* an odd length or an unpaired surrogate.
RECURSIVE utf16_units(_)
utf16_units(b) ==
  IF Len(b) < 2 THEN <<>>
  ELSE <<b[1] + 256 * b[2]>> \o utf16_units(SubSeq(b, 3, Len(b)))

IsHigh(u) == u >= 55296 /\ u <= 56319
IsLow(u) == u >= 56320 /\ u <= 57343

RECURSIVE utf16_points(_)
utf16_points(u) ==
  IF u = <<>> THEN [error |-> None, value |-> <<>>]
  ELSE IF IsLow(u[1]) \/ (IsHigh(u[1]) /\ (Len(u) < 2 \/ ~IsLow(u[2])))
  THEN [error |-> UnicodeDecodeError, value |-> <<>>]
  ELSE LET pair == IsHigh(u[1])
           cp == IF pair THEN 65536 + (u[1] - 55296) * 1024 + (u[2] - 56320) ELSE u[1]
           rest == utf16_points(SubSeq(u, IF pair THEN 3 ELSE 2, Len(u)))
       IN  IF rest.error # None THEN rest
           ELSE [error |-> None, value |-> <<cp>> \o rest.value]

decode_utf16le(b) ==
  IF Len(b) % 2 = 1 THEN [error |-> UnicodeDecodeError, value |-> <<>>]
  ELSE utf16_points(utf16_units(b))

\* ------------------------------------------------------------------------
\* istat_ntfs.py: the parsers, each applied to what get_attr_by_id returned
\* ------------------------------------------------------------------------

parse_entry_header(addr, entry) ==
  [address         |-> addr,
   sequence        |-> unpack(Slice(entry, 16, 18), FALSE),
   logfile_seq_num |-> unpack(Slice(entry, 8, 16), FALSE),
   links           |-> unpack(Slice(entry, 18, 20), FALSE),
   allocated       |-> unpack(Slice(entry, 22, 24), FALSE) # 0]

parse_std_info_attr(attribute, std_info_end, utcoffset) ==
  LET content_offset == unpack(Slice(attribute, 20, 22), FALSE)
      content == Slice(attribute, content_offset, std_info_end + 1)
      created == parse_time(attribute, 0, 8, utcoffset)
      modified == parse_time(attribute, 8, 16, utcoffset)
      mft_modified == parse_time(attribute, 16, 24, utcoffset)
      accessed == parse_time(attribute, 24, 32, utcoffset)
  IN  IF \E t \in {created, modified, mft_modified, accessed} : t.error # None
      THEN [error |-> ValueError, value |-> None]
      ELSE [error |-> None,
            value |-> [created       |-> created.value,
                       modified      |-> modified.value,
                       mft_modified  |-> mft_modified.value,
                       accessed      |-> accessed.value,
                       flags         |-> unpack(Slice(content, 32, 36), FALSE),
                       std_info_size |-> unpack(Slice(attribute, 16, 20), FALSE),
                       std_info_end  |-> std_info_end]]

\* the four parse_time calls come before content[64] and the decoding
parse_file_name_attr(attribute, file_name_end, utcoffset) ==
  LET content_offset == unpack(Slice(attribute, 20, 22), FALSE)
      content == Slice(attribute, content_offset, file_name_end + 1)
      created == parse_time(attribute, 8, 16, utcoffset)
      modified == parse_time(attribute, 16, 24, utcoffset)
      mft_modified == parse_time(attribute, 24, 32, utcoffset)
      accessed == parse_time(attribute, 32, 40, utcoffset)
      name == decode_utf16le(Slice(content, 66, 66 + At(content, 64) * 2))
  IN  IF \E t \in {created, modified, mft_modified, accessed} : t.error # None
      THEN [error |-> ValueError, value |-> None]
      ELSE IF ~InRange(content, 64) THEN [error |-> IndexError, value |-> None]
      ELSE IF name.error # None THEN [error |-> name.error, value |-> None]
      ELSE [error |-> None,
            value |-> [parent         |-> unpack(Slice(content, 0, 6), FALSE),
                       sequence       |-> unpack(Slice(content, 6, 8), FALSE),
                       allocated_size |-> unpack(Slice(content, 40, 48), FALSE),
                       actual_size    |-> unpack(Slice(content, 48, 56), FALSE),
                       created        |-> created.value,
                       modified       |-> modified.value,
                       mft_modified   |-> mft_modified.value,
                       accessed       |-> accessed.value,
                       flags          |-> unpack(Slice(content, 56, 60), FALSE),
                       file_name_size |-> unpack(Slice(attribute, 16, 20), FALSE),
                       name           |-> name.value,
                       file_name_end  |-> file_name_end]]

\* The while loop of parse_data_attr from a run header at runlist_offset:
\* the run header and the curr_sec_list of every iteration, in order, or
\* IndexError when the next header byte lies outside the attribute.
RECURSIVE run_loop(_, _, _)
run_loop(attribute, runlist_offset, prev_first_cluster) ==
  IF ~InRange(attribute, runlist_offset) THEN [error |-> IndexError, runs |-> <<>>]
  ELSE IF At(attribute, runlist_offset) = 0 THEN [error |-> None, runs |-> <<>>]
  ELSE LET hdr == unpack(Slice(attribute, runlist_offset, runlist_offset + 1), FALSE)
           offset_nibble == hdr \div 16
           run_length_nibble == hdr % 16
           byte_offset == runlist_offset + run_length_nibble + 1
           len == unpack(Slice(attribute, runlist_offset + 1, byte_offset), TRUE)
           cluster == unpack(Slice(attribute, byte_offset, byte_offset + offset_nibble), TRUE)
           first == prev_first_cluster + cluster
           curr_sec_list == Range(first, first + len)
           rest == run_loop(attribute, byte_offset + offset_nibble, first)
       IN  [error |-> rest.error,
            runs |-> <<[header |-> hdr, curr_sec_list |-> curr_sec_list]>> \o rest.runs]

RECURSIVE Concat(_)
Concat(lists) == IF lists = <<>> THEN <<>> ELSE Head(lists) \o Concat(Tail(lists))

parse_data_attr(attribute) ==
  IF ~InRange(attribute, 8) THEN [error |-> IndexError, value |-> None]
  ELSE IF At(attribute, 8) = 0
  THEN [error |-> None,
        value |-> [type |-> 128, size |-> unpack(Slice(attribute, 16, 20), FALSE)]]
  ELSE LET runlist_offset == unpack(Slice(attribute, 32, 34), FALSE)
           loop == run_loop(attribute, runlist_offset, 0)
       IN  IF loop.error # None THEN [error |-> loop.error, value |-> None]
           ELSE [error |-> None,
                 value |-> [type        |-> 128,
                            size        |-> unpack(Slice(attribute, 48, 56), FALSE),
                            init_size   |-> unpack(Slice(attribute, 56, 63), FALSE),
                            sector_list |-> Concat([i \in 1..Len(loop.runs) |-> loop.runs[i].curr_sec_list])]]

\* ------------------------------------------------------------------------
\* Images: a boot sector, padding up to the MFT, and MFT slots
\* ------------------------------------------------------------------------

Zeros(n) == [i \in 1..n |-> 0]

RECURSIVE LE(_, _)
LE(n, k) == IF k = 0 THEN <<>> ELSE <<n % 256>> \o LE(n \div 256, k - 1)

Overlay(base, off, b) ==
  [i \in 1..Len(base) |->
     IF i - 1 >= off /\ i - 1 < off + Len(b) THEN b[i - off] ELSE base[i]]

PadTo8(b) == b \o Zeros((8 - (Len(b) % 8)) % 8)

\* content_offset - 24 bytes between a resident header and its content
Gap(n) == [i \in 1..n |-> IF i = 1 THEN 7 ELSE 0]

ResidentHeader(type, len, size, content_offset) ==
  LE(type, 4) \o LE(len, 4) \o <<0, 0>> \o LE(0, 2) \o LE(0, 2) \o LE(0, 2)
    \o LE(size, 4) \o LE(content_offset, 2) \o <<0, 0>>

StdInfoAttr(content_offset) ==
  ResidentHeader(16, content_offset + 48, 48, content_offset)
    \o Gap(content_offset - 24)
    \o LE(10000001, 8) \o LE(20000002, 8) \o LE(30000003, 8) \o LE(0, 8)
    \o LE(32, 4) \o Zeros(12)

FileNameContent(units) ==
  LE(5, 6) \o LE(0, 2)
    \o LE(40000004, 8) \o LE(50000005, 8) \o LE(60000006, 8) \o LE(70000007, 8)
    \o LE(4096, 8) \o LE(3000, 8) \o LE(2, 4) \o LE(0, 4)
    \o <<Len(units), 1>> \o Concat([i \in 1..Len(units) |-> LE(units[i], 2)])

FileNameAttr(content_offset, units) ==
  LET content == PadTo8(FileNameContent(units))
  IN  ResidentHeader(48, content_offset + Len(content), 66 + 2 * Len(units), content_offset)
        \o Gap(content_offset - 24) \o content

DataResident(size) ==
  ResidentHeader(128, 24 + size, size, 24) \o [i \in 1..size |-> 65]

DataNonResident(runlist) ==
  LE(128, 4) \o LE(64 + Len(runlist), 4) \o <<1, 0>> \o LE(64, 2) \o LE(0, 2) \o LE(0, 2)
    \o LE(0, 8) \o LE(47, 8) \o LE(64, 2) \o LE(0, 2) \o LE(0, 4)
    \o LE(196608, 8) \o LE(190000, 8) \o LE(190000, 8) \o runlist

\* a record of another type: its 8 header bytes, then zeros up to len
Other(type, len) == LE(type, 4) \o LE(len, 4) \o Zeros(IF len > 8 /\ len <= 64 THEN len - 8 ELSE 0)

MftEntry(fixup, num_fixup_entries, flags, attrs) ==
  LET e0 == Overlay(Zeros(1024), 0, FILE \o LE(fixup, 2) \o LE(num_fixup_entries, 2)
                      \o LE(9, 8) \o LE(2, 2) \o LE(1, 2) \o LE(56, 2) \o LE(flags, 2)
                      \o LE(56 + Len(attrs), 4) \o LE(1024, 4))
      e1 == Overlay(e0, 56, attrs)
      e2 == Overlay(Overlay(e1, 510, <<1, 0>>), 1022, <<1, 0>>)
  IN  Overlay(e2, fixup, <<1, 0, 170, 187, 204, 221>>)

\* Bounds of the enumerated inputs
MaxRuns == 2
MaxAddress == 3
MaxIters == 4
MaxFixups == 3
MaxFlags == 3

\* the hosts: seconds east of UTC of their local time at the end of year
\* 9999 (America/New_York, UTC, Asia/Tokyo)
Zones == {0 - 18000, 0, 32400}

Run(hdr, len, delta) == IF hdr \div 16 = 0 THEN <<hdr, len>> ELSE <<hdr, len, delta>>

\* 0x11 runs of length 2 or 0x80 and delta +16 or -5, and a sparse 0x01 run
Runs == {Run(17, 2, 16), Run(17, 128, 16), Run(17, 2, 251), Run(1, 2, 0)}

RECURSIVE RunSeqs(_)
RunSeqs(n) == IF n = 0 THEN {<<>>} ELSE {r \o t : r \in Runs, t \in RunSeqs(n - 1)}

RunLists ==
  {l \o <<0>> : l \in UNION {RunSeqs(n) : n \in 1..MaxRuns}}
    \cup {<<17, 48, 16, 0>>, <<33, 2, 0, 1, 0>>, <<18, 2, 0, 5, 0>>, <<16, 5, 0>>, <<17, 2, 16>>}

Names == {<<>>, <<97, 98, 99>>, <<55296>>, <<55357, 56832>>}

ContentOffsets == {24, 32}

Attrs(std_offset, name_offset, units, data) ==
  StdInfoAttr(std_offset) \o FileNameAttr(name_offset, units) \o data

Plain == Attrs(24, 24, <<97, 98, 99>>, DataResident(5))

\* attribute lists that are not a $STANDARD_INFORMATION, $FILE_NAME, $DATA triple
OddAttrs ==
  LET two == StdInfoAttr(24) \o FileNameAttr(24, <<97>>)
  IN  { two \o Other(80, 0) \o DataResident(5),
        two \o Other(144, 1024 - (56 + Len(two))),
        two \o Other(144, 1040 - (56 + Len(two))),
        StdInfoAttr(24) \o Other(32, 16) \o FileNameAttr(24, <<97>>) \o DataResident(5),
        Other(0, 16) \o two \o DataResident(5),
        two,
        two \o <<128, 0, 0, 0, 1, 0, 0, 0>> }

\* entries with a timestamp at or around the first tick of a host's year 10000: in
\* $STANDARD_INFORMATION (at 56), in $FILE_NAME (at 128), also with a name
\* that does not decode and with a $FILE_NAME too short for its name length
LateTimes ==
  {[i \in 1..8 |-> 255], <<0, 0, 0, 0, 0, 0, 0, 37>>}
    \cup {FirstTickOfYear10000(z) : z \in Zones}
    \cup {SubDigits(FirstTickOfYear10000(z), <<1>>, 0) : z \in Zones}

TimeEntries ==
  LET base == MftEntry(48, 3, 1, Plain)
      late == [i \in 1..8 |-> 255]
  IN  {Overlay(base, 56 + 24, t) : t \in LateTimes}
        \cup {Overlay(base, 56 + 48, t) : t \in LateTimes}
        \cup {Overlay(base, 128 + 32, t) : t \in LateTimes}
        \cup {Overlay(base, 128 + 40, late),
              Overlay(MftEntry(48, 3, 1, Attrs(24, 24, <<55296>>, DataResident(5))), 128 + 32, late),
              Overlay(Overlay(base, 128 + 4, LE(80, 4)), 128 + 32, late),
              Overlay(base, 128 + 4, LE(80, 4))}

Entries ==
  {MftEntry(48, n, 1, Plain) : n \in 0..MaxFixups}
    \cup {MftEntry(48, 3, f, Plain) : f \in 0..MaxFlags}
    \cup {MftEntry(1020, 3, 1, Plain)}
    \cup {MftEntry(48, 3, 1, Attrs(s, n, u, DataResident(5))) :
             s \in ContentOffsets, n \in ContentOffsets, u \in Names}
    \cup {MftEntry(48, 3, 1, Attrs(24, 24, <<97>>, DataNonResident(l))) : l \in RunLists}
    \cup {MftEntry(48, 3, 1, a) : a \in OddAttrs}
    \cup TimeEntries
    \cup {Zeros(1024)}

BootSector(bytes_per_sector, sectors_per_cluster, mft_start) ==
  Overlay(Overlay(Zeros(512), 11, LE(bytes_per_sector, 2) \o LE(sectors_per_cluster, 1)),
          48, LE(mft_start, 8))

Geometries == {<<512, 1, 1>>, <<512, 2, 1>>, <<256, 1, 3>>}

Image(g, slot0) ==
  BootSector(g[1], g[2], g[3]) \o Zeros(g[1] * g[2] * g[3] - 512)
    \o slot0
    \o MftEntry(48, 3, 1, Attrs(24, 24, <<98>>, DataNonResident(<<17, 48, 16, 0>>)))
    \o Zeros(1024)

Images ==
  {Image(<<512, 1, 1>>, e) : e \in Entries}
    \cup {Image(g, MftEntry(48, 3, 1, Plain)) : g \in Geometries}

\* ------------------------------------------------------------------------
\* State
\* ------------------------------------------------------------------------

VARIABLES
  host_utcoffset,   \* the host's time zone, as datetime.fromtimestamp sees it
  file,             \* self.file: [data, pos]
  io,               \* the seeks and reads of the current istat_entry call
  earlier,          \* how the istat_entry call before the current one ended
  mft_byte_offset,  \* self.mft_byte_offset
  bytes_per_entry,  \* self.bytes_per_entry
  pc,               \* where the running call stands; "idle" between calls
  address,          \* istat_entry's argument
  entry,            \* the entry buffer of the running call
  caller,           \* who called get_attr_by_id
  search_start,     \* get_attr_by_id's prev_attr_end argument as passed
  attr_id, prev_attr_end, curr_attr_end, attr_full_entry, attr_start, length,
  iters,            \* loop iterations of get_attr_by_id so far
  mft_entry_dict,   \* istat_entry's dict under construction
  outcome,          \* "none" while running, "ok", or the exception raised
  result            \* the value the last call returned

walker == <<caller, search_start, attr_id, prev_attr_end, curr_attr_end,
            attr_full_entry, attr_start, length, iters>>

geometry == <<mft_byte_offset, bytes_per_entry>>

vars == <<host_utcoffset, file, io, earlier, geometry, pc, address, entry, walker, mft_entry_dict, outcome, result>>

EmptyDict == [header |-> None, std_info |-> None, file_name |-> None, data |-> None]

\* ParseMFT.__init__
Init ==
  /\ host_utcoffset \in Zones
  /\ \E img \in Images :
       LET boot == Slice(img, 0, 512)
           bytes_per_sector == unpack(Slice(boot, 11, 13), FALSE)
           sectors_per_cluster == unpack(Slice(boot, 13, 14), FALSE)
           mft_start == unpack(Slice(boot, 48, 56), FALSE)
       IN  /\ file = [data |-> img, pos |-> Len(boot)]
           /\ bytes_per_entry = 1024
           /\ mft_byte_offset = mft_start * sectors_per_cluster * bytes_per_sector
  /\ io = <<>>
  /\ earlier = "none"
  /\ pc = "idle"
  /\ address = None
  /\ entry = <<>>
  /\ caller = None
  /\ search_start = 0
  /\ attr_id = 0
  /\ prev_attr_end = 0
  /\ curr_attr_end = 0
  /\ attr_full_entry = Zeros4
  /\ attr_start = None
  /\ length = None
  /\ iters = 0
  /\ mft_entry_dict = EmptyDict
  /\ outcome = "none"
  /\ result = None

\* ------------------------------------------------------------------------
\* ParseMFT.istat_entry, stage by stage
\* ------------------------------------------------------------------------

ClearWalker ==
  /\ caller' = None
  /\ search_start' = 0
  /\ attr_id' = 0
  /\ prev_attr_end' = 0
  /\ curr_attr_end' = 0
  /\ attr_full_entry' = Zeros4
  /\ attr_start' = None
  /\ length' = None
  /\ iters' = 0

\* an exception leaves istat_entry: nothing is returned
Raise(exc) ==
  /\ pc' = "idle"
  /\ outcome' = exc
  /\ result' = None

\* a stride of one sector instead of one entry
SeekTargetHalfEntry(addr) == mft_byte_offset + addr * 512

\* the argument of self.file.seek
SeekTarget(addr) == mft_byte_offset + addr * bytes_per_entry

\* self.file.seek(...); entry = self.file.read(1024)
IstatEntry(addr) ==
  /\ pc = "idle"
  /\ LET target == SeekTarget(addr)
         got == Slice(file.data, target, target + 1024)
     IN  /\ file' = [file EXCEPT !.pos = target + Len(got)]
         /\ io' = << [op |-> "seek", pos |-> target],
                     [op |-> "read", pos |-> target, size |-> 1024] >>
         /\ entry' = got
  /\ earlier' = outcome
  /\ address' = addr
  /\ pc' = "fetched"
  /\ mft_entry_dict' = EmptyDict
  /\ outcome' = "none"
  /\ result' = None
  /\ ClearWalker
  /\ UNCHANGED <<host_utcoffset, geometry>>

\* entry = apply_fixup(entry)
ApplyFixup ==
  /\ pc = "fetched"
  /\ IF SignatureOk(entry)
     THEN /\ entry' = apply_fixup(entry)
          /\ pc' = "fixed"
          /\ UNCHANGED <<outcome, result>>
     ELSE /\ Raise(AssertionError)
          /\ UNCHANGED entry
  /\ UNCHANGED <<host_utcoffset, file, io, earlier, geometry, address, walker, mft_entry_dict>>

ParseEntryHeader ==
  /\ pc = "fixed"
  /\ mft_entry_dict' = [mft_entry_dict EXCEPT !.header = parse_entry_header(address, entry)]
  /\ pc' = "header"
  /\ UNCHANGED <<host_utcoffset, file, io, earlier, geometry, address, entry, walker, outcome, result>>

\* get_attr_by_id up to its loop head
EnterWalk(who, id, start) ==
  /\ caller' = who
  /\ search_start' = start
  /\ attr_id' = id
  /\ prev_attr_end' = start
  /\ curr_attr_end' = start
  /\ attr_full_entry' = Zeros4
  /\ attr_start' = None
  /\ length' = None
  /\ iters' = 0
  /\ pc' = "walk"

CallStdInfo ==
  /\ pc = "header"
  /\ EnterWalk("std_info", 16, 56)
  /\ UNCHANGED <<host_utcoffset, file, io, earlier, geometry, address, entry, mft_entry_dict, outcome, result>>

CallFileName ==
  /\ pc = "std_info"
  /\ EnterWalk("file_name", 48, mft_entry_dict.std_info.std_info_end)
  /\ UNCHANGED <<host_utcoffset, file, io, earlier, geometry, address, entry, mft_entry_dict, outcome, result>>

CallData ==
  /\ pc = "file_name"
  /\ EnterWalk("data", 128, mft_entry_dict.file_name.file_name_end)
  /\ UNCHANGED <<host_utcoffset, file, io, earlier, geometry, address, entry, mft_entry_dict, outcome, result>>

\* the loop test of get_attr_by_id
Found == unpack(Slice(attr_full_entry, 0, 4), FALSE) = attr_id

\* one pass through the loop body
WalkIter ==
  /\ pc = "walk"
  /\ ~Found
  /\ iters < MaxIters
  /\ LET len == unpack(Slice(entry, prev_attr_end + 4, prev_attr_end + 8), FALSE)
     IN  /\ attr_start' = prev_attr_end
         /\ length' = len
         /\ curr_attr_end' = prev_attr_end + len
         /\ attr_full_entry' = Slice(entry, prev_attr_end, prev_attr_end + len)
         /\ prev_attr_end' = prev_attr_end + len
  /\ iters' = iters + 1
  /\ UNCHANGED <<host_utcoffset, file, io, earlier, geometry, pc, address, entry, caller, search_start, attr_id,
                 mft_entry_dict, outcome, result>>

\* return attr_full_entry, curr_attr_end
WalkReturn ==
  /\ pc = "walk"
  /\ Found
  /\ pc' = "returned"
  /\ UNCHANGED <<host_utcoffset, file, io, earlier, geometry, address, entry, walker, mft_entry_dict, outcome, result>>

Parsed(who, r) ==
  IF r.error # None
  THEN /\ Raise(r.error)
       /\ UNCHANGED mft_entry_dict
  ELSE /\ mft_entry_dict' = [mft_entry_dict EXCEPT ![who] = r.value]
       /\ pc' = who
       /\ UNCHANGED <<outcome, result>>

ParseStdInfoAttr ==
  /\ pc = "returned"
  /\ caller = "std_info"
  /\ Parsed("std_info", parse_std_info_attr(attr_full_entry, curr_attr_end, host_utcoffset))
  /\ UNCHANGED <<host_utcoffset, file, io, earlier, geometry, address, entry, walker>>

ParseFileNameAttr ==
  /\ pc = "returned"
  /\ caller = "file_name"
  /\ Parsed("file_name", parse_file_name_attr(attr_full_entry, curr_attr_end, host_utcoffset))
  /\ UNCHANGED <<host_utcoffset, file, io, earlier, geometry, address, entry, walker>>

ParseDataAttr ==
  /\ pc = "returned"
  /\ caller = "data"
  /\ Parsed("data", parse_data_attr(attr_full_entry))
  /\ UNCHANGED <<host_utcoffset, file, io, earlier, geometry, address, entry, walker>>

\* return mft_entry_dict
IstatReturn ==
  /\ pc = "data"
  /\ pc' = "idle"
  /\ outcome' = "ok"
  /\ result' = mft_entry_dict
  /\ UNCHANGED <<host_utcoffset, file, io, earlier, geometry, address, entry, walker, mft_entry_dict>>

Next ==
  \/ \E addr \in 0..MaxAddress : IstatEntry(addr)
  \/ ApplyFixup
  \/ ParseEntryHeader
  \/ CallStdInfo
  \/ WalkIter
  \/ WalkReturn
  \/ ParseStdInfoAttr
  \/ CallFileName
  \/ ParseFileNameAttr
  \/ CallData
  \/ ParseDataAttr
  \/ IstatReturn

Spec == Init /\ [][Next]_vars

\* ------------------------------------------------------------------------
\* get_attr_by_id on its own: any of the entries, a type code, a start
\* ------------------------------------------------------------------------

AttrIds == {0, 16, 48, 128}

SearchStarts == {56, 128}

InitAttr ==
  /\ host_utcoffset = 0
  /\ file = [data |-> <<>>, pos |-> 0]
  /\ io = <<>>
  /\ earlier = "none"
  /\ mft_byte_offset = 0
  /\ bytes_per_entry = 1024
  /\ address = None
  /\ mft_entry_dict = EmptyDict
  /\ outcome = "none"
  /\ result = None
  /\ pc = "walk"
  /\ caller = "direct"
  /\ entry \in Entries
  /\ attr_id \in AttrIds
  /\ search_start \in SearchStarts
  /\ prev_attr_end = search_start
  /\ curr_attr_end = search_start
  /\ attr_full_entry = Zeros4
  /\ attr_start = None
  /\ length = None
  /\ iters = 0

GetAttrByIdReturn ==
  /\ pc = "returned"
  /\ caller = "direct"
  /\ pc' = "idle"
  /\ outcome' = "ok"
  /\ result' = <<attr_full_entry, curr_attr_end>>
  /\ UNCHANGED <<host_utcoffset, file, io, earlier, geometry, address, entry, walker, mft_entry_dict>>

NextAttr ==
  \/ WalkIter
  \/ WalkReturn
  \/ GetAttrByIdReturn

SpecAttr == InitAttr /\ [][NextAttr]_vars

\* ------------------------------------------------------------------------
\* Properties
\* ------------------------------------------------------------------------

\* the 1024 bytes the running istat_entry call asked the image for
RawEntry == Slice(file.data, io[2].pos, io[2].pos + io[2].size)

InIstat == io # <<>>

\* The run list as the format defines it: every run with both nibbles
\* non-zero, the length unsigned, the delta signed and relative to the previous
\* run's first cluster, a 0x00 header byte closing the list.
RECURSIVE FormatRuns(_, _, _)
FormatRuns(attribute, off, prev) ==
  IF ~InRange(attribute, off) THEN [ok |-> FALSE, clusters |-> <<>>]
  ELSE IF At(attribute, off) = 0 THEN [ok |-> TRUE, clusters |-> <<>>]
  ELSE LET hi == At(attribute, off) \div 16
           lo == At(attribute, off) % 16
           len == unpack(Slice(attribute, off + 1, off + 1 + lo), FALSE)
           start == prev + unpack(Slice(attribute, off + 1 + lo, off + 1 + lo + hi), TRUE)
           rest == FormatRuns(attribute, off + 1 + lo + hi, start)
       IN  IF hi = 0 \/ lo = 0 \/ off + 1 + lo + hi > Len(attribute)
           THEN [ok |-> FALSE, clusters |-> <<>>]
           ELSE [ok |-> rest.ok, clusters |-> Range(start, start + len) \o rest.clusters]

NonResidentParsed == pc = "data" /\ "sector_list" \in DOMAIN mft_entry_dict.data

\* C1: for a non-resident $DATA attribute whose run list has only runs with
\* both nibbles non-zero and ends in 0x00, the cluster list returned is the
\* concatenation of the ranges [start_i, start_i + len_i), len_i read unsigned
\* and start_i the running sum of the signed deltas.
C1_ClusterListIsFormatRuns ==
  NonResidentParsed =>
    LET f == FormatRuns(attr_full_entry, unpack(Slice(attr_full_entry, 32, 34), FALSE), 0)
    IN  f.ok => mft_entry_dict.data.sector_list = f.clusters

\* The first record, walking from off by declared lengths, whose 4-byte type
\* code is id; -1 when the walk leaves the buffer or stops advancing first.
RECURSIVE FirstMatch(_, _, _, _)
FirstMatch(e, id, off, fuel) ==
  IF off + 8 > Len(e) THEN -1
  ELSE IF unpack(Slice(e, off, off + 4), FALSE) = id THEN off
  ELSE IF fuel = 0 \/ unpack(Slice(e, off + 4, off + 8), FALSE) = 0 THEN -1
  ELSE FirstMatch(e, id, off + unpack(Slice(e, off + 4, off + 8), FALSE), fuel - 1)

\* C2: when the walk from the search start reaches a record of the requested
\* type, get_attr_by_id returns the bytes entry[offset : offset+length] of the
\* first such record and offset+length as the next search position.
C2_ReturnsFirstMatch ==
  pc = "returned" =>
    LET o == FirstMatch(entry, attr_id, search_start, MaxIters)
        len == unpack(Slice(entry, o + 4, o + 8), FALSE)
    IN  o # -1 => /\ attr_full_entry = Slice(entry, o, o + len)
                  /\ curr_attr_end = o + len

\* C3: a candidate that is not of the requested type and declares length 0
\* makes the walk fail with MalformedAttributeError; the walk does not go on.
C3_ZeroLengthFails ==
  (/\ pc = "walk"
   /\ iters >= 1
   /\ length = 0
   /\ unpack(Slice(entry, attr_start, attr_start + 4), FALSE) # attr_id)
    => outcome = "MalformedAttributeError"

\* C4: with no attribute of the requested type found, the walk fails with
\* AttributeNotFoundError once its offset reaches the end of the buffer; it
\* does not go on iterating there.
C4_NotFoundAtBufferEnd ==
  (pc = "walk" /\ ~Found /\ prev_attr_end >= Len(entry))
    => outcome = "AttributeNotFoundError"

\* C5: whatever the fixup offset and count of a FILE entry, apply_fixup
\* returns 1024 bytes, bytes 510-511 and 1022-1023 being the first and second
\* pair after the update sequence number and every other byte the input's.
C5_FixupFrame ==
  (InIstat /\ pc = "fixed") =>
    LET raw == RawEntry
        fixup == unpack(Slice(raw, 4, 6), FALSE)
    IN  /\ Len(entry) = 1024
        /\ Slice(entry, 510, 512) = Slice(raw, fixup + 2, fixup + 4)
        /\ Slice(entry, 1022, 1024) = Slice(raw, fixup + 4, fixup + 6)
        /\ \A i \in 1..Len(raw) : i \notin {511, 512, 1023, 1024} => entry[i] = raw[i]

\* the spec's BadSignatureError is the failed assertion of apply_fixup
BadSignatureError == AssertionError

\* C6: an entry whose first 4 bytes are not FILE fails with the signature
\* error before any header or attribute is parsed, and istat_entry returns
\* nothing for that address.
C6_BadSignatureAborts ==
  (InIstat /\ Slice(RawEntry, 0, 4) # FILE) =>
    /\ pc \in {"fetched", "idle"}
    /\ mft_entry_dict = EmptyDict
    /\ result = None
    /\ pc = "idle" => outcome = BadSignatureError

C6_Witness ==
  /\ InIstat
  /\ pc = "idle"
  /\ RawEntry = Zeros(1024)
  /\ outcome = BadSignatureError
  /\ result = None

\* C7: a sparse run (offset-length nibble 0, run-length nibble not 0) puts no
\* cluster number in the cluster list.
C7_SparseRunIsHole ==
  NonResidentParsed =>
    LET loop == run_loop(attr_full_entry, unpack(Slice(attr_full_entry, 32, 34), FALSE), 0)
    IN  \A i \in 1..Len(loop.runs) :
          (loop.runs[i].header \div 16 = 0 /\ loop.runs[i].header % 16 # 0)
            => loop.runs[i].curr_sec_list = <<>>

\* C8: 'allocated' is true exactly when bit 0 of the flags field at entry
\* offset 22 is set.
C8_AllocatedIsBit0 ==
  (InIstat /\ pc = "header") =>
    (mft_entry_dict.header.allocated <=> unpack(Slice(entry, 22, 24), FALSE) % 2 = 1)

ContentField(attribute, lo, hi) ==
  LET content_offset == unpack(Slice(attribute, 20, 22), FALSE)
  IN  unpack(Slice(attribute, content_offset + lo, content_offset + hi), FALSE)

ContentTime(attribute, lo, hi) ==
  LET content_offset == unpack(Slice(attribute, 20, 22), FALSE)
  IN  Digits(Slice(attribute, content_offset + lo, content_offset + hi))

\* C9: every content field of $STANDARD_INFORMATION and $FILE_NAME, the four
\* timestamps of each included, is read at the content offset stored in
\* header bytes 20-21 plus the field's offset within the content.
C9_FieldsAtContentOffset ==
  /\ pc = "std_info" =>
       LET a == attr_full_entry
           d == mft_entry_dict.std_info
       IN  /\ d.created.ticks = ContentTime(a, 0, 8)
           /\ d.modified.ticks = ContentTime(a, 8, 16)
           /\ d.mft_modified.ticks = ContentTime(a, 16, 24)
           /\ d.accessed.ticks = ContentTime(a, 24, 32)
           /\ d.flags = ContentField(a, 32, 36)
  /\ pc = "file_name" =>
       LET a == attr_full_entry
           d == mft_entry_dict.file_name
       IN  /\ d.parent = ContentField(a, 0, 6)
           /\ d.sequence = ContentField(a, 6, 8)
           /\ d.created.ticks = ContentTime(a, 8, 16)
           /\ d.modified.ticks = ContentTime(a, 16, 24)
           /\ d.mft_modified.ticks = ContentTime(a, 24, 32)
           /\ d.accessed.ticks = ContentTime(a, 32, 40)
           /\ d.allocated_size = ContentField(a, 40, 48)
           /\ d.actual_size = ContentField(a, 48, 56)
           /\ d.flags = ContentField(a, 56, 60)

\* C10: whatever calls came before and however they ended, the geometry is
\* the one computed from the boot sector, and a call does one seek and one
\* 1024-byte read, both at mft_byte_offset + address * 1024.
C10_GeometryKeptOneSeekOneRead ==
  /\ bytes_per_entry = 1024
  /\ mft_byte_offset = unpack(Slice(file.data, 48, 56), FALSE)
                         * unpack(Slice(file.data, 13, 14), FALSE)
                         * unpack(Slice(file.data, 11, 13), FALSE)
  /\ InIstat =>
       /\ io = << [op |-> "seek", pos |-> mft_byte_offset + address * 1024],
                  [op |-> "read", pos |-> mft_byte_offset + address * 1024, size |-> 1024] >>
       /\ pc = "fetched" =>
            entry = Slice(file.data, mft_byte_offset + address * 1024,
                          mft_byte_offset + address * 1024 + 1024)

\* a call on address 1 that succeeded right after a call that failed
C10_Witness ==
  /\ InIstat
  /\ pc = "idle"
  /\ address = 1
  /\ outcome = "ok"
  /\ earlier \in {AssertionError, IndexError, UnicodeDecodeError, ValueError}
  /\ mft_byte_offset > 512

====
